---- MODULE Spec2Model ----
(***************************************************************************)
(* TimeSeriesDifferencing (src/src/common.py): the stateful differencing / *)
(* de-differencing engine.  One engine instance is modelled; its fields    *)
(* are the variables below.  Every method call is one action; the call's   *)
(* argument, its returned vector or raised error, and the fields as they   *)
(* stood before the call are kept in the last_* / pre_* variables so that  *)
(* properties of single calls can be stated as state predicates.           *)
(*                                                                         *)
(* Series are one-dimensional arrays of integers (exact arithmetic); the   *)
(* rounding of floating-point sums is not modelled.  Arrays are values:    *)
(* no method writes an array in place.  The ragged np.sum of line 192 is   *)
(* modelled as numpy 1.24 and later behave (ValueError).                   *)
(*                                                                         *)
(* Specifications: Spec (one engine, the two public methods), SpecOrder    *)
(* (the two forward methods), SpecTolerance (large-valued series),         *)
(* SpecPeriodic (periodic_cumulative_sum alone), SpecRounds (rounds        *)
(* stacked on one engine), SpecIsolation (two engines, variables           *)
(* instances and alone).                                                   *)
(***************************************************************************)
EXTENDS Integers, Sequences, FiniteSets, TLC

\* ------------------------------------------------------------------ bounds

MaxKDiff == 2
MaxKSeasonal == 2
MaxPeriods == 2
MaxLen == 6
MaxPrepend == 1
\* Seeds an engine may hold when a further round starts on it.
MaxStack == 3

\* The series a caller may pass are the prefixes, of every length up to
\* MaxLen, of three integer sequences: all zeros; the triangular numbers
\* 1, 3, 6, 10, ...; and the irregular 3, 5, 5, 2, 2, 4, 0, 3, ...
Patterns == {"zero", "triangular", "irregular"}

PatternAt(p, i) ==
    CASE p = "zero" -> 0
      [] p = "triangular" -> (i * (i + 1)) \div 2
      [] p = "irregular" -> (i * i * i + 2 * i) % 7

Series == {[i \in 1..n |-> PatternAt(p, i)] : p \in Patterns, n \in 0..MaxLen}

\* ------------------------------------------------------------------ errors

NoError == "none"
InvalidInputLength == "AssertionError:61"
InvalidInputPeriod == "AssertionError:63"
DiffSeedIndexError == "IndexError:77"
InvalidInputLength2 == "AssertionError:96"
InvalidInputPeriod2 == "AssertionError:98"
PeriodicLengthError == "AssertionError:125"
PeriodicIndexError == "IndexError:131"
MissingState == "ValueError:155"
LengthMismatch == "AssertionError:177"
BroadcastError == "ValueError:185"
RaggedSumError == "ValueError:192"
SeedIndexError == "IndexError:198"

\* ------------------------------------------------------- array primitives

Max(a, b) == IF a >= b THEN a ELSE b
Min(a, b) == IF a <= b THEN a ELSE b
Abs(a) == IF a >= 0 THEN a ELSE -a

\* Python's normalisation of a slice bound i for a sequence of length n.
SliceBound(i, n) == IF i < 0 THEN Max(i + n, 0) ELSE Min(i, n)

\* Python's s[start:stop] (0-based, stop exclusive, negative bounds count
\* from the end).
PySlice(s, start, stop) ==
    LET a == SliceBound(start, Len(s))
        b == SliceBound(stop, Len(s))
    IN  IF a < b THEN SubSeq(s, a + 1, b) ELSE <<>>

\* s[:n]
SliceTo(s, n) == PySlice(s, 0, n)
\* s[n:]
SliceFrom(s, n) == PySlice(s, n, Len(s))

\* Element-wise a - b of two arrays of the same length.
ArraySub(a, b) == [i \in 1..Len(a) |-> a[i] - b[i]]

\* Element-wise a + b of two arrays of the same length.
ArrayAdd(a, b) == [i \in 1..Len(a) |-> a[i] + b[i]]

\* Variant of FirstDiff with the operands exchanged: a[:-1] - a[1:].
FirstDiffReversed(s) == ArraySub(SliceTo(s, -1), SliceFrom(s, 1))

\* One pass of np.diff: a[1:] - a[:-1].
FirstDiff(s) == ArraySub(SliceFrom(s, 1), SliceTo(s, -1))

\* np.diff(s, k): the first difference iterated k times (k = 0: s itself).
RECURSIVE NpDiff(_, _)
NpDiff(s, k) == IF k = 0 THEN s ELSE NpDiff(FirstDiff(s), k - 1)

\* np.cumsum(s)
RECURSIVE NpCumSum(_)
NpCumSum(s) ==
    IF Len(s) <= 1 THEN s
    ELSE LET head == NpCumSum(SubSeq(s, 1, Len(s) - 1))
         IN  Append(head, head[Len(head)] + s[Len(s)])

\* np.isclose(a, b) of two integers with the defaults of np.allclose:
\* |a - b| <= atol + rtol * |b| with atol = 1e-8 and rtol = 1e-5, which for
\* integers is |a - b| <= floor(|b| / 100000).
IsClose(a, b) == Abs(a - b) <= Abs(b) \div 100000

\* Whether numpy can broadcast two 1-dimensional arrays together.
Broadcastable(a, b) == Len(a) = Len(b) \/ Len(a) = 1 \/ Len(b) = 1

\* np.allclose(a, b) of two broadcastable 1-dimensional arrays.
AllClose(a, b) ==
    LET n == IF Len(a) = 1 THEN Len(b) ELSE IF Len(b) = 1 THEN Len(a)
             ELSE Min(Len(a), Len(b))
        at(s, i) == IF Len(s) = 1 THEN s[1] ELSE s[i]
    IN  \A i \in 1..n : IsClose(at(a, i), at(b, i))

\* ------------------------------------------------------------ the engine

VARIABLES
    k_diff,                   \* order of simple differencing
    k_seasonal_diff,          \* order of seasonal differencing
    seasonal_periods,         \* lag of seasonal differencing
    original_vector,          \* series of the last difference call
    final_difference_vector,  \* differenced series of the last difference call
    prepend_vector,           \* seeds needed to invert the differencing
    last_call,                \* name of the method called last
    last_series,              \* its argument
    last_result,              \* the vector it returned (<<>> when it raised)
    last_error,               \* the error it raised, or NoError
    pre_original_vector,      \* the fields as they stood before that call
    pre_final_difference_vector,
    pre_prepend_vector,
    instances,                \* two engines constructed separately
    alone                     \* each of the two as its own calls alone leave it

config == <<k_diff, k_seasonal_diff, seasonal_periods>>
fields == <<original_vector, final_difference_vector, prepend_vector>>
last == <<last_call, last_series, last_result, last_error>>
pre == <<pre_original_vector, pre_final_difference_vector, pre_prepend_vector>>
pair == <<instances, alone>>
vars == <<config, fields, last, pre, pair>>

\* The engine as a value, for the methods below.
Engine ==
    [k_diff |-> k_diff, k_seasonal_diff |-> k_seasonal_diff,
     seasonal_periods |-> seasonal_periods,
     original_vector |-> original_vector,
     final_difference_vector |-> final_difference_vector,
     prepend_vector |-> prepend_vector]

\* The outcome of a call on engine e: its fields afterwards, and what the
\* call returned or raised.
Returns(e, result) ==
    [original_vector |-> e.original_vector,
     final_difference_vector |-> e.final_difference_vector,
     prepend_vector |-> e.prepend_vector,
     result |-> result, error |-> NoError]

Raises(e, error) ==
    [original_vector |-> e.original_vector,
     final_difference_vector |-> e.final_difference_vector,
     prepend_vector |-> e.prepend_vector,
     result |-> <<>>, error |-> error]

\* difference_time_series_seasonal: k passes, each appending the first
\* 'periods' elements of the series to prepend_vector and replacing the
\* series by series[periods:] - series[:-periods].
RECURSIVE difference_time_series_seasonal(_, _, _, _)
difference_time_series_seasonal(pv, series, k, periods) ==
    IF k = 0 THEN [prepend_vector |-> pv, series |-> series]
    ELSE difference_time_series_seasonal(
             pv \o SliceTo(series, periods),
             ArraySub(SliceFrom(series, periods), SliceTo(series, -periods)),
             k - 1, periods)

\* The list diff_vectors of difference_time_series: np.diff(series, k) for
\* k in range(k_diff + 1), indexed from 0.
DiffVectors(series, k) == [j \in 0..k |-> NpDiff(series, j)]

\* The array prepends of difference_time_series: dfv[0] for every vector of
\* diff_vectors but the last.
Prepends(diff_vectors, k) == [j \in 1..k |-> diff_vectors[j - 1][1]]

\* difference_time_series(series) on engine e.
difference_time_series(e, series) ==
    IF Len(series) < Max(e.k_diff, e.k_seasonal_diff)
    THEN Raises(e, InvalidInputLength)
    ELSE IF e.k_seasonal_diff > 0 /\ e.seasonal_periods < 1
    THEN Raises(e, InvalidInputPeriod)
    ELSE
    LET e1 == [e EXCEPT !.original_vector = series]
        seasonal == difference_time_series_seasonal(
                        e1.prepend_vector, series,
                        e.k_seasonal_diff, e.seasonal_periods)
        e2 == [e1 EXCEPT !.prepend_vector = seasonal.prepend_vector]
        diff_vectors == DiffVectors(seasonal.series, e.k_diff)
    IN  IF \E j \in 0..(e.k_diff - 1) : Len(diff_vectors[j]) = 0
        THEN Raises(e2, DiffSeedIndexError)
        ELSE LET e3 == [e2 EXCEPT
                          !.prepend_vector =
                              e2.prepend_vector \o Prepends(diff_vectors, e.k_diff),
                          !.final_difference_vector = diff_vectors[e.k_diff]]
             IN  Returns(e3, diff_vectors[e.k_diff])

\* Variant of _difference_time_series_2 that returns after the simple
\* differencing, without the seasonal passes.
difference_time_series_2_simple_only(e, series) ==
    Returns([e EXCEPT !.original_vector = series,
                      !.final_difference_vector = NpDiff(series, e.k_diff)],
            NpDiff(series, e.k_diff))

\* _difference_time_series_2(series) on engine e: simple differencing
\* first, then the seasonal passes.
difference_time_series_2(e, series) ==
    IF e.k_diff + e.k_seasonal_diff > Len(series)
    THEN Raises(e, InvalidInputLength2)
    ELSE IF e.k_seasonal_diff > 0 /\ e.seasonal_periods < 1
    THEN Raises(e, InvalidInputPeriod2)
    ELSE
    LET simple == NpDiff(series, e.k_diff)
        seasonal == difference_time_series_seasonal(
                        e.prepend_vector, simple,
                        e.k_seasonal_diff, e.seasonal_periods)
        e1 == [e EXCEPT !.original_vector = series,
                        !.final_difference_vector = simple,
                        !.prepend_vector = seasonal.prepend_vector]
    IN  Returns(e1, seasonal.series)

\* The loop of periodic_cumulative_sum: idx_1 runs over range(periods_n).
RECURSIVE PeriodicLoop(_, _, _, _, _)
PeriodicLoop(periodic_cumsum, series, idx_1, periods_n, periods) ==
    IF idx_1 >= periods_n THEN [value |-> periodic_cumsum, error |-> NoError]
    ELSE IF idx_1 + 1 > Len(periodic_cumsum)
    THEN [value |-> <<>>, error |-> PeriodicIndexError]
    ELSE PeriodicLoop(
             Append(periodic_cumsum,
                    periodic_cumsum[idx_1 + 1] + series[idx_1 + periods + 1]),
             series, idx_1 + 1, periods_n, periods)

\* Variant of periodic_cumulative_sum whose length assertion admits a series
\* of exactly one period.
periodic_cumulative_sum_lenient(series, periods) ==
    IF ~(Len(series) >= periods)
    THEN [value |-> <<>>, error |-> PeriodicLengthError]
    ELSE PeriodicLoop(SliceTo(series, periods), series, 0,
                      Len(series) - periods, periods)

\* periodic_cumulative_sum(series, seasonal_periods): the value it returns
\* or the error it raises.
periodic_cumulative_sum(series, periods) ==
    IF ~(Len(series) > periods)
    THEN [value |-> <<>>, error |-> PeriodicLengthError]
    ELSE PeriodicLoop(SliceTo(series, periods), series, 0,
                      Len(series) - periods, periods)

\* The simple de-differencing loop of de_difference_time_series, passes
\* p = -1 .. -k: prepend prepend_vector[p] and take the cumulative sum.
\* prepend_vector itself is not written inside the loop.
RECURSIVE SimpleDeDifference(_, _, _, _)
SimpleDeDifference(pv, combined_vector, pass, k) ==
    IF pass > k THEN combined_vector
    ELSE SimpleDeDifference(
             pv,
             NpCumSum(<<pv[Len(pv) - pass + 1]>> \o combined_vector),
             pass + 1, k)

\* Variant of SeasonalDeDifference that takes each seed block from the front
\* of prepend_vector instead of from its end.
RECURSIVE SeasonalDeDifferenceFromFront(_, _, _)
SeasonalDeDifferenceFromFront(e, combined_vector, k) ==
    IF k = 0 THEN Returns(e, combined_vector)
    ELSE
    LET prepend == PySlice(e.prepend_vector, 0, e.seasonal_periods)
        summed == periodic_cumulative_sum(
                      prepend \o combined_vector, e.seasonal_periods)
    IN  IF summed.error # NoError THEN Raises(e, summed.error)
        ELSE SeasonalDeDifferenceFromFront(
                 [e EXCEPT !.prepend_vector =
                               SliceFrom(e.prepend_vector, e.seasonal_periods)],
                 summed.value, k - 1)

\* The seasonal de-differencing loop of de_difference_time_series, with k
\* passes left, on engine e.
RECURSIVE SeasonalDeDifference(_, _, _)
SeasonalDeDifference(e, combined_vector, k) ==
    IF k = 0 THEN Returns(e, combined_vector)
    ELSE
    LET end_idx == Len(e.prepend_vector)
        start_idx == end_idx - e.seasonal_periods
        prepend == PySlice(e.prepend_vector, start_idx, end_idx)
        summed == periodic_cumulative_sum(
                      prepend \o combined_vector, e.seasonal_periods)
    IN  IF summed.error # NoError THEN Raises(e, summed.error)
        ELSE SeasonalDeDifference(
                 [e EXCEPT !.prepend_vector =
                               SliceTo(e.prepend_vector, -e.seasonal_periods)],
                 summed.value, k - 1)

\* Variant of PopSimpleSeeds that forgets to remove the used seeds.
PopSimpleSeedsKept(pv, k) == pv

\* The statement self.prepend_vector = self.prepend_vector[:p] after the
\* simple loop, where p is None when the loop did not run.
PopSimpleSeeds(pv, k) == IF k = 0 THEN pv ELSE SliceTo(pv, -k)

\* Variant of Combine that never adds the stored differenced series.
CombineInputOnly(fdv, series) == series

\* Variant of Combine that tests exact equality instead of np.allclose.
CombineExact(fdv, series) ==
    IF fdv = series THEN series ELSE ArrayAdd(series, fdv)

\* combined_vector as the combine step of de_difference_time_series sets it.
Combine(fdv, series) ==
    IF AllClose(fdv, series) THEN series ELSE ArrayAdd(series, fdv)

\* Variant of PassThrough that hands back the stored differenced series.
PassThroughDifferenced(e) == Returns(e, e.final_difference_vector)

\* The return of de_difference_time_series for an empty input: the stored
\* original_vector, no field written.
PassThrough(e) == Returns(e, e.original_vector)

\* Variant of Untransformed that keeps its input as the stored differenced
\* series.
UntransformedStored(e, series) ==
    Returns([e EXCEPT !.final_difference_vector = series], series)

\* Variant of Untransformed that hands back original_vector, as the
\* empty-input branch above it does.
UntransformedOriginal(e, series) == Returns(e, e.original_vector)

\* The return of de_difference_time_series when both orders are zero: the
\* input itself, no field written.
Untransformed(e, series) == Returns(e, series)

\* Variant of EngineDiffTotal that leaves the period out, as the assertion
\* of _difference_time_series_2 does.
EngineDiffTotalOrders(e) == e.k_diff + e.k_seasonal_diff

\* diff_total of de_difference_time_series: k_diff plus
\* season_period_diff_len = k_seasonal_diff * seasonal_periods.
EngineDiffTotal(e) == e.k_diff + e.k_seasonal_diff * e.seasonal_periods

\* de_difference_time_series(series) on engine e.
de_difference_time_series(e, series) ==
    IF Len(e.original_vector) = 0 THEN Raises(e, MissingState)
    ELSE IF Len(series) = 0 THEN PassThrough(e)
    ELSE IF e.k_diff = 0 /\ e.k_seasonal_diff = 0 THEN Untransformed(e, series)
    ELSE
    LET diff_total == EngineDiffTotal(e)
    IN  IF Len(series) + diff_total # Len(e.original_vector)
        THEN Raises(e, LengthMismatch)
        ELSE IF ~Broadcastable(e.final_difference_vector, series)
        THEN Raises(e, BroadcastError)
        ELSE IF ~AllClose(e.final_difference_vector, series)
                /\ Len(e.final_difference_vector) # Len(series)
        THEN Raises(e, RaggedSumError)
        ELSE IF Len(e.prepend_vector) < e.k_diff
        THEN Raises(e, SeedIndexError)
        ELSE
        LET combined_vector ==
                SimpleDeDifference(
                    e.prepend_vector,
                    Combine(e.final_difference_vector, series), 1, e.k_diff)
            e1 == [e EXCEPT !.prepend_vector =
                                PopSimpleSeeds(e.prepend_vector, e.k_diff)]
        IN  SeasonalDeDifference(e1, combined_vector, e.k_seasonal_diff)

\* ----------------------------------------------------------------- calls

\* The defaults of the dataclass fields k_diff, k_seasonal_diff and
\* seasonal_periods.
DefaultKDiff == 1
DefaultKSeasonalDiff == 0
DefaultSeasonalPeriods == 1

\* The two engines of a program that keeps one engine per series.
Instances == {"A", "B"}

\* The dataclass constructor: the three parameters as given, the three
\* vectors each a new empty array of its own (default_factory).
Construct(kd, ks, periods) ==
    [k_diff |-> kd, k_seasonal_diff |-> ks, seasonal_periods |-> periods,
     original_vector |-> <<>>, final_difference_vector |-> <<>>,
     prepend_vector |-> <<>>]

\* The engine after construction with the given orders and period and the
\* default (empty) vectors.
Init ==
    /\ k_diff \in 0..MaxKDiff
    /\ k_seasonal_diff \in 0..MaxKSeasonal
    /\ seasonal_periods \in 0..MaxPeriods
    /\ original_vector = <<>>
    /\ final_difference_vector = <<>>
    /\ prepend_vector = <<>>
    /\ last_call = "none"
    /\ last_series = <<>>
    /\ last_result = <<>>
    /\ last_error = NoError
    /\ pre_original_vector = <<>>
    /\ pre_final_difference_vector = <<>>
    /\ pre_prepend_vector = <<>>
    /\ instances =
           [self \in Instances |->
               [engine |-> IF self = "A"
                           THEN Construct(k_diff, k_seasonal_diff,
                                          seasonal_periods)
                           ELSE Construct(DefaultKDiff, DefaultKSeasonalDiff,
                                          DefaultSeasonalPeriods),
                result |-> <<>>, error |-> NoError]]
    /\ alone = instances

\* One whole call of method 'name' with argument 'series' and outcome 'out'.
Call(name, series, out) ==
    /\ original_vector' = out.original_vector
    /\ final_difference_vector' = out.final_difference_vector
    /\ prepend_vector' = out.prepend_vector
    /\ last_call' = name
    /\ last_series' = series
    /\ last_result' = out.result
    /\ last_error' = out.error
    /\ pre_original_vector' = original_vector
    /\ pre_final_difference_vector' = final_difference_vector
    /\ pre_prepend_vector' = prepend_vector
    /\ UNCHANGED <<config, pair>>

\* A caller calls difference_time_series(series).
Difference ==
    /\ Len(prepend_vector) <= MaxPrepend
    /\ \E series \in Series :
           Call("difference_time_series", series,
                difference_time_series(Engine, series))

\* A caller calls de_difference_time_series(series): with a series of its
\* own (the empty one included) or with the stored differenced series.
DeDifference ==
    \E series \in Series \cup {final_difference_vector} :
        Call("de_difference_time_series", series,
             de_difference_time_series(Engine, series))

\* A caller calls _difference_time_series_2(series).
Difference2 ==
    /\ Len(prepend_vector) <= MaxPrepend
    /\ \E series \in Series :
           Call("_difference_time_series_2", series,
                difference_time_series_2(Engine, series))

Next == Difference \/ DeDifference

Spec == Init /\ [][Next]_vars

\* The two orders of differencing, called on engines of every configuration.
NextOrder == Difference \/ Difference2

SpecOrder == Init /\ [][NextOrder]_vars

\* Inputs large enough for the relative tolerance of np.allclose to matter:
\* prefixes of the series 100000 * i^3, next to the irregular ones.
LargeAt(i) == 100000 * i * i * i

LargeSeries ==
    {[i \in 1..n |-> LargeAt(i)] : n \in 0..MaxLen}
    \cup {[i \in 1..n |-> PatternAt("irregular", i)] : n \in 0..MaxLen}

\* The series with every element one larger.
Nudged(s) == [i \in 1..Len(s) |-> s[i] + 1]

\* A caller calls difference_time_series on a large-valued series.
DifferenceLarge ==
    /\ Len(prepend_vector) <= MaxPrepend
    /\ \E series \in LargeSeries :
           Call("difference_time_series", series,
                difference_time_series(Engine, series))

\* A caller calls de_difference_time_series with a series of its own, with
\* the stored differenced series, or with a series one off the stored one
\* in every element.
DeDifferenceNear ==
    \E series \in LargeSeries \cup {final_difference_vector,
                                    Nudged(final_difference_vector)} :
        Call("de_difference_time_series", series,
             de_difference_time_series(Engine, series))

NextTolerance == DifferenceLarge \/ DeDifferenceNear

SpecTolerance == Init /\ [][NextTolerance]_vars

\* The first P elements of t followed by the lag-P differences of t.
SeedsAndLagDifferences(t, periods) ==
    SubSeq(t, 1, periods)
    \o [i \in 1..(Len(t) - periods) |-> t[i + periods] - t[i]]

\* Inputs of periodic_cumulative_sum: the series of the model and the
\* seeded lag-P differences of each of them.
PeriodicInputs ==
    Series \cup {SeedsAndLagDifferences(t, seasonal_periods) :
                     t \in {s \in Series : Len(s) >= seasonal_periods}}

\* A caller calls periodic_cumulative_sum(series, seasonal_periods) with the
\* period of the engine, as de_difference_time_series does; the method reads
\* and writes no field.
PeriodicCumulativeSum ==
    \E series \in PeriodicInputs :
        LET summed == periodic_cumulative_sum(series, seasonal_periods)
        IN  Call("periodic_cumulative_sum", series,
                 IF summed.error = NoError
                 THEN Returns(Engine, summed.value)
                 ELSE Raises(Engine, summed.error))

NextPeriodic == PeriodicCumulativeSum

SpecPeriodic == Init /\ [][NextPeriodic]_vars

\* The series of rounds stacked on one engine: prefixes of the irregular
\* series.
RoundSeries == {[i \in 1..n |-> PatternAt("irregular", i)] : n \in 0..MaxLen}

\* A caller calls difference_time_series on an engine that may still hold
\* the seeds of earlier rounds.
DifferenceStacked ==
    /\ Len(prepend_vector) <= MaxStack
    /\ \E series \in RoundSeries :
           Call("difference_time_series", series,
                difference_time_series(Engine, series))

\* A caller calls de_difference_time_series with a series of the rounds or
\* with the stored differenced series.
DeDifferenceStacked ==
    \E series \in RoundSeries \cup {final_difference_vector} :
        Call("de_difference_time_series", series,
             de_difference_time_series(Engine, series))

NextRounds == DifferenceStacked \/ DeDifferenceStacked

SpecRounds == Init /\ [][NextRounds]_vars

\* The series passed to the two engines: the empty one and the two longest
\* prefixes of the irregular series.
IsolationSeries ==
    {[i \in 1..n |-> PatternAt("irregular", i)] : n \in {0, MaxLen - 1, MaxLen}}

\* The default of the parameter series of de_difference_time_series: one
\* empty array, made when the method is defined and used by every call
\* without an argument.
DefaultSeries == <<>>

\* Variant of Store that writes the fields on every instance, as
\* assignments to attributes of the class would.
StoreOnClass(all, self, out) ==
    [i \in DOMAIN all |->
        [engine |-> [all[i].engine EXCEPT
                        !.original_vector = out.original_vector,
                        !.final_difference_vector = out.final_difference_vector,
                        !.prepend_vector = out.prepend_vector],
         result |-> IF i = self THEN out.result ELSE all[i].result,
         error |-> IF i = self THEN out.error ELSE all[i].error]]

\* The assignments self.original_vector = ..., self.final_difference_vector
\* = ... and self.prepend_vector = ... of a call on the instance self, and
\* what the call hands to its caller: attributes of that instance only.
Store(all, self, out) ==
    [all EXCEPT ![self] =
        [engine |-> [@.engine EXCEPT
                        !.original_vector = out.original_vector,
                        !.final_difference_vector = out.final_difference_vector,
                        !.prepend_vector = out.prepend_vector],
         result |-> out.result, error |-> out.error]]

\* The instance as a call with outcome out leaves it when nothing else has
\* acted on it.
LeftAlone(was, out) ==
    [engine |-> [was.engine EXCEPT
                    !.original_vector = out.original_vector,
                    !.final_difference_vector = out.final_difference_vector,
                    !.prepend_vector = out.prepend_vector],
     result |-> out.result, error |-> out.error]

\* A caller calls difference_time_series(series) on the instance self.
DifferenceOn(self) ==
    /\ Len(instances[self].engine.prepend_vector) <= MaxPrepend
    /\ \E series \in IsolationSeries :
           /\ instances' = Store(instances, self,
                  difference_time_series(instances[self].engine, series))
           /\ alone' = [alone EXCEPT ![self] = LeftAlone(@,
                  difference_time_series(alone[self].engine, series))]
    /\ UNCHANGED <<config, fields, last, pre>>

\* A caller calls de_difference_time_series on the instance self: with a
\* series of its own, without an argument, or with the differenced series
\* the instance stores.
DeDifferenceOn(self) ==
    /\ \E series \in IsolationSeries \cup
                     {DefaultSeries,
                      instances[self].engine.final_difference_vector} :
           /\ instances' = Store(instances, self,
                  de_difference_time_series(instances[self].engine, series))
           /\ alone' = [alone EXCEPT ![self] = LeftAlone(@,
                  de_difference_time_series(alone[self].engine, series))]
    /\ UNCHANGED <<config, fields, last, pre>>

NextIsolation ==
    \/ DifferenceOn("A")
    \/ DeDifferenceOn("A")
    \/ DifferenceOn("B")
    \/ DeDifferenceOn("B")

SpecIsolation == Init /\ [][NextIsolation]_vars

\* ---------------------------------------------------------------- claims

\* diff_total of the engine's configuration.
DiffTotal == k_diff + k_seasonal_diff * seasonal_periods

Returned(name) == last_call = name /\ last_error = NoError
Raised(name) == last_call = name /\ last_error # NoError

\* The last call found the engine as construction leaves it.
FreshBefore ==
    /\ pre_original_vector = <<>>
    /\ pre_final_difference_vector = <<>>
    /\ pre_prepend_vector = <<>>

\* The last call left the three vectors as it found them.
FieldsUnchanged ==
    /\ original_vector = pre_original_vector
    /\ final_difference_vector = pre_final_difference_vector
    /\ prepend_vector = pre_prepend_vector

\* The lag-P difference of s: element i is s[i + P] - s[i].
LagDiff(s, periods) == [i \in 1..(Len(s) - periods) |-> s[i + periods] - s[i]]

\* The lag-P difference iterated k times.
RECURSIVE LagDiffIter(_, _, _)
LagDiffIter(s, k, periods) ==
    IF k = 0 THEN s ELSE LagDiffIter(LagDiff(s, periods), k - 1, periods)

\* Element i of the first difference iterated k times, by the recurrence
\* D^k s[i] = D^(k-1) s[i+1] - D^(k-1) s[i].
RECURSIVE FwdDiffAt(_, _, _)
FwdDiffAt(s, k, i) ==
    IF k = 0 THEN s[i] ELSE FwdDiffAt(s, k - 1, i + 1) - FwdDiffAt(s, k - 1, i)

\* The seeds of a series s of length at least diff_total, in the order the
\* seasonal passes and then the simple differencing produce them.
RECURSIVE SeasonalSeeds(_, _, _)
SeasonalSeeds(s, k, periods) ==
    IF k = 0 THEN <<>>
    ELSE SubSeq(s, 1, periods)
         \o SeasonalSeeds(LagDiff(s, periods), k - 1, periods)

SimpleSeeds(s, k) == [j \in 1..k |-> FwdDiffAt(s, j - 1, 1)]

ExpectedSeeds(s) ==
    SeasonalSeeds(s, k_seasonal_diff, seasonal_periods)
    \o SimpleSeeds(LagDiffIter(s, k_seasonal_diff, seasonal_periods), k_diff)

\* C1 (round trip): when difference_time_series(s) has returned on a fresh
\* engine, de_difference_time_series of the returned vector returns s.
C1_RoundTrip ==
    [][(/\ Returned("difference_time_series")
        /\ FreshBefore
        /\ last_call' = "de_difference_time_series"
        /\ last_series' = last_result)
       => (last_error' = NoError /\ last_result' = last_series)]_vars

\* C2 (length invariant): after every difference_time_series call that
\* returns, len(original_vector) = len(final_difference_vector) + diff_total.
C2_LengthInvariant ==
    Returned("difference_time_series")
    => /\ Len(original_vector) = Len(final_difference_vector) + DiffTotal
       /\ Len(final_difference_vector) = Len(last_series) - DiffTotal

\* C3 (seed production): every difference_time_series call that returns
\* appends exactly diff_total seeds to prepend_vector, the seasonal seeds of
\* each pass first and the simple seeds of orders 0 .. k_diff - 1 after them.
C3_SeedProduction ==
    Returned("difference_time_series")
    => /\ Len(prepend_vector) = Len(pre_prepend_vector) + DiffTotal
       /\ SliceTo(prepend_vector, Len(pre_prepend_vector)) = pre_prepend_vector
       /\ SliceFrom(prepend_vector, Len(pre_prepend_vector))
              = ExpectedSeeds(last_series)

\* C4 as stated (seed consumption for every accepted input): a
\* de_difference_time_series call that returns right after a returned
\* difference_time_series call leaves prepend_vector as it was before that
\* difference_time_series call.
C4_ConsumesForEveryInput ==
    [][(/\ Returned("difference_time_series")
        /\ last_call' = "de_difference_time_series"
        /\ last_error' = NoError)
       => prepend_vector' = pre_prepend_vector]_vars

\* C4 as amended: for a non-empty input the returning call removes exactly
\* the last diff_total elements of prepend_vector, restoring its value from
\* before the round; for the empty input it leaves prepend_vector as
\* difference_time_series left it.
C4_ConsumesForNonEmptyInput ==
    [][(/\ Returned("difference_time_series")
        /\ last_call' = "de_difference_time_series"
        /\ last_error' = NoError)
       => IF last_series' = <<>>
          THEN prepend_vector' = prepend_vector
          ELSE /\ Len(prepend_vector) >= DiffTotal
               /\ prepend_vector'
                      = SliceTo(prepend_vector, Len(prepend_vector) - DiffTotal)
               /\ prepend_vector' = pre_prepend_vector]_vars

\* C4 witness: a reconstruction returned with seeds of an older call left
\* below the diff_total seeds it consumed.
C4_Witness ==
    /\ Returned("de_difference_time_series")
    /\ last_series # <<>>
    /\ DiffTotal > 0
    /\ prepend_vector # <<>>
    /\ Len(pre_prepend_vector) = Len(prepend_vector) + DiffTotal

\* C5 (failure atomicity): whenever a call raises, the three vectors are
\* what they were before the call.
C5_FailureAtomicity == last_error # NoError => FieldsUnchanged

\* C6 (out-of-sequence detection): a de_difference_time_series call with a
\* non-empty input and non-zero orders, made when prepend_vector is empty
\* (the seeds of the matching call were consumed already), raises the
\* length-mismatch error and leaves prepend_vector alone; it never returns
\* a series.  Python does not tell one failed assert from another, so the
\* assertion of periodic_cumulative_sum is counted as that error too.
C6_OutOfSequenceDetected ==
    (/\ last_call = "de_difference_time_series"
     /\ last_series # <<>>
     /\ DiffTotal > 0
     /\ pre_original_vector # <<>>
     /\ pre_prepend_vector = <<>>)
    => (/\ last_error \in {LengthMismatch, PeriodicLengthError}
        /\ prepend_vector = pre_prepend_vector)

\* C7 (missing state): de_difference_time_series raises the missing-state
\* error, changing nothing, whenever original_vector is empty, and never
\* raises it right after a difference_time_series call that returned.
C7_MissingState ==
    [][/\ (last_call' = "de_difference_time_series" /\ original_vector = <<>>)
          => (last_error' = MissingState /\ fields' = fields)
       /\ (Returned("difference_time_series")
           /\ last_call' = "de_difference_time_series")
          => last_error' # MissingState]_vars

\* C8 (empty-input pass-through): with a non-empty original_vector stored,
\* de_difference_time_series of the empty input returns original_vector,
\* whatever prepend_vector holds, and writes nothing.
C8_EmptyInputPassThrough ==
    (/\ last_call = "de_difference_time_series"
     /\ last_series = <<>>
     /\ pre_original_vector # <<>>)
    => (/\ last_error = NoError
        /\ last_result = pre_original_vector
        /\ FieldsUnchanged)

\* C8 witness: the empty input was passed while prepend_vector held seeds
\* and both orders were positive.
C8_Witness ==
    /\ Returned("de_difference_time_series")
    /\ last_series = <<>>
    /\ k_diff > 0 /\ k_seasonal_diff > 0
    /\ pre_prepend_vector # <<>>
    /\ last_result = original_vector
    /\ Len(last_result) > DiffTotal

\* C9 as stated (identity case): with both orders zero,
\* difference_time_series(s) returns s and adds no seed, and
\* de_difference_time_series(x) returns x for every x, the empty one
\* included, leaving prepend_vector unchanged.
C9_IdentityForEveryInput ==
    (k_diff = 0 /\ k_seasonal_diff = 0)
    => /\ last_call = "difference_time_series"
          => (/\ last_error = NoError
              /\ last_result = last_series
              /\ prepend_vector = pre_prepend_vector)
       /\ (last_call = "de_difference_time_series"
           /\ pre_original_vector # <<>>)
          => (/\ last_error = NoError
              /\ last_result = last_series
              /\ prepend_vector = pre_prepend_vector)

\* C9 as amended: with both orders zero, difference_time_series(s) returns
\* s and adds no seed; de_difference_time_series(x) leaves prepend_vector
\* unchanged and, on a non-empty original_vector, returns x for every
\* non-empty x and original_vector for the empty x; on an empty
\* original_vector it raises the missing-state error.
C9_IdentityForNonEmptyInput ==
    (k_diff = 0 /\ k_seasonal_diff = 0)
    => /\ last_call = "difference_time_series"
          => (/\ last_error = NoError
              /\ last_result = last_series
              /\ original_vector = last_series
              /\ prepend_vector = pre_prepend_vector)
       /\ last_call = "de_difference_time_series"
          => /\ prepend_vector = pre_prepend_vector
             /\ IF pre_original_vector = <<>>
                THEN last_error = MissingState
                ELSE /\ last_error = NoError
                     /\ last_result = IF last_series = <<>>
                                      THEN pre_original_vector
                                      ELSE last_series

\* C9 witness: with both orders zero a non-empty input of a length other
\* than len(original_vector) was returned as it was.
C9_Witness ==
    /\ k_diff = 0 /\ k_seasonal_diff = 0
    /\ Returned("de_difference_time_series")
    /\ last_series # <<>>
    /\ Len(last_series) # Len(original_vector)
    /\ last_result = last_series
    /\ last_result # original_vector

\* The engine of the current configuration as construction leaves it.
FreshEngine ==
    [k_diff |-> k_diff, k_seasonal_diff |-> k_seasonal_diff,
     seasonal_periods |-> seasonal_periods,
     original_vector |-> <<>>, final_difference_vector |-> <<>>,
     prepend_vector |-> <<>>]

\* C10 (order commutativity): for a series of length at least
\* diff_total + 1, _difference_time_series_2 returns the vector that
\* difference_time_series returns for it on a fresh engine of the same
\* configuration.
C10_OrderCommutes ==
    (/\ Returned("_difference_time_series_2")
     /\ Len(last_series) >= DiffTotal + 1)
    => LET other == difference_time_series(FreshEngine, last_series)
       IN  other.error = NoError /\ last_result = other.result

\* C10 witness: both orders positive, a non-empty result, and the two
\* methods left different seeds.
C10_Witness ==
    /\ Returned("_difference_time_series_2")
    /\ k_diff > 0 /\ k_seasonal_diff > 0
    /\ Len(last_series) >= DiffTotal + 1
    /\ last_result # <<>>
    /\ pre_prepend_vector = <<>>
    /\ prepend_vector
           # difference_time_series(FreshEngine, last_series).prepend_vector

\* C11 (length-mismatch check): with original_vector non-empty, a non-empty
\* input and an order positive, de_difference_time_series raises the
\* length-mismatch error (the assertion of line 177) exactly when
\* len(series) + diff_total differs from len(original_vector), and then
\* leaves prepend_vector as it was.
C11_LengthMismatchCheck ==
    (/\ last_call = "de_difference_time_series"
     /\ pre_original_vector # <<>>
     /\ last_series # <<>>
     /\ (k_diff > 0 \/ k_seasonal_diff > 0))
    => /\ last_error = LengthMismatch
          <=> Len(last_series) + DiffTotal # Len(pre_original_vector)
       /\ last_error = LengthMismatch => prepend_vector = pre_prepend_vector

\* C11 witness: the length-mismatch error was raised for an input one
\* element too long while prepend_vector held the seeds of the series.
C11_Witness ==
    /\ last_call = "de_difference_time_series"
    /\ last_error = LengthMismatch
    /\ k_seasonal_diff > 0 /\ seasonal_periods > 1
    /\ Len(last_series) + DiffTotal = Len(original_vector) + 1
    /\ prepend_vector # <<>>

\* C12 (input validation of the forward transform): difference_time_series(s)
\* raises the invalid-input error with every field unchanged when
\* len(s) < max(k_diff, k_seasonal_diff) or (k_seasonal_diff > 0 and
\* seasonal_periods < 1), and every other series is processed to completion
\* without any error.
C12_InputValidation ==
    last_call = "difference_time_series"
    => IF \/ Len(last_series) < Max(k_diff, k_seasonal_diff)
          \/ (k_seasonal_diff > 0 /\ seasonal_periods < 1)
       THEN /\ last_error \in {InvalidInputLength, InvalidInputPeriod}
            /\ FieldsUnchanged
       ELSE last_error = NoError

\* The k-fold iterated first difference of the ks-fold iterated lag-P
\* difference of s, element by element.
ExpectedDifference(s, kd, ks, periods) ==
    LET t == LagDiffIter(s, ks, periods)
    IN  [i \in 1..(Len(t) - kd) |-> FwdDiffAt(t, kd, i)]

\* C13 (forward transform result): for a series s of length at least
\* diff_total (seasonal_periods >= 1 when seasonal differencing is on),
\* difference_time_series(s) returns, and stores as final_difference_vector,
\* the k_diff-fold first difference of the k_seasonal_diff-fold lag-P
\* difference of s, and stores s as original_vector; the two examples of the
\* claim come out as [2,3,4,5] with seed [1] and [4,4,4,4] with seeds
\* [1,2,3,4].
C13_ForwardResult ==
    /\ (/\ last_call = "difference_time_series"
        /\ Len(last_series) >= DiffTotal
        /\ (k_seasonal_diff > 0 => seasonal_periods >= 1))
       => /\ last_error = NoError
          /\ last_result = ExpectedDifference(last_series, k_diff,
                                              k_seasonal_diff, seasonal_periods)
          /\ final_difference_vector = last_result
          /\ original_vector = last_series
    /\ LET out == difference_time_series(Construct(1, 0, 1), <<1, 3, 6, 10, 15>>)
       IN  /\ out.error = NoError
           /\ out.result = <<2, 3, 4, 5>>
           /\ out.final_difference_vector = <<2, 3, 4, 5>>
           /\ out.prepend_vector = <<1>>
    /\ LET out == difference_time_series(Construct(0, 1, 4),
                                         <<1, 2, 3, 4, 5, 6, 7, 8>>)
       IN  /\ out.error = NoError
           /\ out.result = <<4, 4, 4, 4>>
           /\ out.final_difference_vector = <<4, 4, 4, 4>>
           /\ out.prepend_vector = <<1, 2, 3, 4>>

\* C13 witness: the first example of the claim has run on an engine, and
\* stacked on seeds that were already there.
C13_Witness ==
    /\ Returned("difference_time_series")
    /\ k_diff = 1 /\ k_seasonal_diff = 0
    /\ last_series = <<1, 3, 6, 10, 15>>
    /\ last_result = <<2, 3, 4, 5>>
    /\ pre_prepend_vector # <<>>
    /\ prepend_vector = pre_prepend_vector \o <<1>>

\* r is the series that the transform of the engine takes to y and that has
\* the seeds of s.
InvertsTo(r, y, s) ==
    /\ Len(r) = Len(s)
    /\ ExpectedDifference(r, k_diff, k_seasonal_diff, seasonal_periods) = y
    /\ ExpectedSeeds(r) = ExpectedSeeds(s)

\* a and b, of one length, are close in the sense of np.allclose(a, b):
\* |a[i] - b[i]| <= 1e-8 + 1e-5 * |b[i]| for every i, which for integers
\* below 2^31 is a[i] = b[i] or 100000 * |a[i] - b[i]| <= |b[i]|.
CloseTo(a, b) ==
    \A i \in 1..Len(a) :
        LET d == Abs(a[i] - b[i])
        IN  d = 0 \/ (d < 20000 /\ 100000 * d <= Abs(b[i]))

\* C14 as stated (additive-delta branch), for a non-empty s: after
\* difference_time_series(s), de_difference_time_series(x) for an x of
\* length len(s) - diff_total returns
\* the inversion, with the seeds of s, of x + final_difference_vector when x
\* is not equal to final_difference_vector, and of x itself only when it is
\* equal.
C14_AdditiveForEveryUnequal ==
    [][(/\ Returned("difference_time_series")
        /\ last_series # <<>>
        /\ last_call' = "de_difference_time_series"
        /\ Len(last_series') = Len(last_series) - DiffTotal)
       => /\ last_error' = NoError
          /\ IF last_series' # final_difference_vector
             THEN InvertsTo(last_result',
                            ArrayAdd(last_series', final_difference_vector),
                            last_series)
             ELSE InvertsTo(last_result', last_series', last_series)]_vars

\* C14 (additive-delta branch), amended: with an order positive, after
\* difference_time_series(s), de_difference_time_series(x) for an x of length
\* len(s) - diff_total returns the inversion, with the seeds of s, of
\* x + final_difference_vector when x is not close to final_difference_vector
\* in the sense of np.allclose, and of x itself when it is close, equal or
\* not.
C14_AdditiveForEveryDistant ==
    [][(/\ Returned("difference_time_series")
        /\ (k_diff > 0 \/ k_seasonal_diff > 0)
        /\ last_call' = "de_difference_time_series"
        /\ Len(last_series') = Len(last_series) - DiffTotal)
       => /\ last_error' = NoError
          /\ IF ~CloseTo(final_difference_vector, last_series')
             THEN InvertsTo(last_result',
                            ArrayAdd(last_series', final_difference_vector),
                            last_series)
             ELSE InvertsTo(last_result', last_series', last_series)]_vars

\* C14 witness: an input close but not equal to the stored differenced
\* series was reconstructed as itself, without the stored series added.
C14_Witness ==
    /\ Returned("de_difference_time_series")
    /\ (k_diff > 0 \/ k_seasonal_diff > 0)
    /\ last_series # <<>>
    /\ Len(last_series) = Len(final_difference_vector)
    /\ last_series # final_difference_vector
    /\ CloseTo(final_difference_vector, last_series)
    /\ InvertsTo(last_result, last_series, original_vector)

\* C15 (output length of the inverse): every de_difference_time_series call
\* with a non-empty input and an order positive that returns, returns a
\* series of length len(series) + diff_total, the length of original_vector.
C15_InverseLength ==
    (/\ Returned("de_difference_time_series")
     /\ last_series # <<>>
     /\ (k_diff > 0 \/ k_seasonal_diff > 0))
    => /\ Len(last_result) = Len(last_series) + DiffTotal
       /\ Len(last_result) = Len(original_vector)

\* C16 (periodic cumulative sum): for a period P >= 1 and a sequence x with
\* len(x) > P, periodic_cumulative_sum(x, P) returns r of the length of x
\* with r[i] = x[i] in the first period and r[i] = r[i-P] + x[i] after it,
\* and returns t when x is the first P elements of t followed by the lag-P
\* differences of t; for len(x) <= P it raises instead of returning.
C16_PeriodicCumulativeSum ==
    (last_call = "periodic_cumulative_sum" /\ seasonal_periods >= 1)
    => IF Len(last_series) > seasonal_periods
       THEN /\ last_error = NoError
            /\ Len(last_result) = Len(last_series)
            /\ \A i \in 1..Len(last_result) :
                   last_result[i] =
                       IF i <= seasonal_periods THEN last_series[i]
                       ELSE last_result[i - seasonal_periods] + last_series[i]
            /\ \A t \in Series :
                   (/\ Len(t) > seasonal_periods
                    /\ last_series = SeedsAndLagDifferences(t, seasonal_periods))
                   => last_result = t
       ELSE last_error = PeriodicLengthError

\* C16 witness: the seeded lag-2 differences of a series of five or more
\* elements were summed back to the series.
C16_Witness ==
    /\ Returned("periodic_cumulative_sum")
    /\ seasonal_periods = 2
    /\ Len(last_result) >= 5
    /\ last_result \in Series
    /\ last_series = SeedsAndLagDifferences(last_result, 2)
    /\ last_series # last_result

\* The last n elements of pv (all of pv when it has no more than n).
LastElements(pv, n) ==
    IF Len(pv) <= n THEN pv ELSE SubSeq(pv, Len(pv) - n + 1, Len(pv))

\* The engine as the last call found it.
EngineBefore ==
    [Engine EXCEPT !.original_vector = pre_original_vector,
                   !.final_difference_vector = pre_final_difference_vector,
                   !.prepend_vector = pre_prepend_vector]

\* A returned difference_time_series call on an engine that still held
\* seeds has overwritten original_vector and final_difference_vector and
\* appended the seeds of its series after the ones that were there.
StackedOnOlderSeeds ==
    (Returned("difference_time_series") /\ pre_prepend_vector # <<>>)
    => /\ original_vector = last_series
       /\ final_difference_vector = last_result
       /\ Len(prepend_vector) = Len(pre_prepend_vector) + DiffTotal
       /\ prepend_vector = pre_prepend_vector \o ExpectedSeeds(last_series)

\* The result of a reconstruction is the one that the last diff_total
\* elements of prepend_vector alone give.
DependsOnLastSeedsOnly ==
    (/\ last_call = "de_difference_time_series"
     /\ last_series # <<>>
     /\ (k_diff > 0 \/ k_seasonal_diff > 0))
    => LET out == de_difference_time_series(
                      [EngineBefore EXCEPT !.prepend_vector =
                           LastElements(pre_prepend_vector, DiffTotal)],
                      last_series)
       IN  out.result = last_result /\ out.error = last_error

\* C17 as stated (repeated rounds on one engine), for s2 of length at least
\* diff_total: a difference_time_series(s2) call on an engine that still
\* holds seeds overwrites original_vector and
\* final_difference_vector and appends the seeds of s2 after the older ones;
\* the following de_difference_time_series of the differenced s2 returns s2
\* and leaves exactly the older seeds; and a reconstruction depends only on
\* the last diff_total elements of prepend_vector.
C17_RoundsForEverySeries ==
    /\ [](Len(last_series) >= DiffTotal => StackedOnOlderSeeds)
    /\ []DependsOnLastSeedsOnly
    /\ [][(/\ Returned("difference_time_series")
           /\ pre_prepend_vector # <<>>
           /\ Len(last_series) >= DiffTotal
           /\ last_call' = "de_difference_time_series"
           /\ last_series' = last_result)
          => /\ last_error' = NoError
             /\ last_result' = last_series
             /\ prepend_vector' = pre_prepend_vector]_vars

\* C17 (repeated rounds on one engine), amended: the same for a
\* difference_time_series(s2) call whose result is non-empty.
C17_RoundsForNonEmptyResult ==
    /\ [](last_result # <<>> => StackedOnOlderSeeds)
    /\ []DependsOnLastSeedsOnly
    /\ [][(/\ Returned("difference_time_series")
           /\ pre_prepend_vector # <<>>
           /\ last_result # <<>>
           /\ last_call' = "de_difference_time_series"
           /\ last_series' = last_result)
          => /\ last_error' = NoError
             /\ last_result' = last_series
             /\ prepend_vector' = pre_prepend_vector]_vars

\* C17 witness: the second of two stacked rounds of total order three was
\* reconstructed, and the three seeds of the first round are what is left.
C17_Witness ==
    /\ Returned("de_difference_time_series")
    /\ k_diff > 0 /\ k_seasonal_diff > 0 /\ DiffTotal = 3
    /\ last_series # <<>>
    /\ last_series = final_difference_vector
    /\ last_result = original_vector
    /\ Len(prepend_vector) = 3
    /\ pre_prepend_vector = prepend_vector \o ExpectedSeeds(original_vector)

Zeros(n) == [i \in 1..n |-> 0]

====
